---------------------------- MODULE Spec2Model ----------------------------
(***************************************************************************)
(* Smart-Route: the penalised nearest-neighbour route builder              *)
(* (solve_tsp_nearest_neighbor_with_right_turn_penalty), the turn angle    *)
(* (calculate_angle), the total-distance sum and the /optimize-route       *)
(* handler of src/main.py (the same builder and angle code is repeated in  *)
(* src/app.py).                                                            *)
(*                                                                         *)
(* Numbers.  Coordinates are IEEE doubles; the model keeps the integers    *)
(* and the sign of zero, which is what decides atan2 on the axes.  Angles  *)
(* are exact degrees: on the points used every vector is null or lies in   *)
(* one of the eight compass directions, where math.atan2 and math.degrees  *)
(* give exact multiples of 45.  Costs are non-negative integers and Inf.   *)
(***************************************************************************)
EXTENDS Integers, Sequences, FiniteSets, TLC

(***************************************************************************)
(* Bounds of the model.                                                    *)
(***************************************************************************)
MaxN == 3          \* largest number of waypoints given to the builder
MaxCalls == 2      \* calls of the builder made on the same inputs
MaxOrderLen == 3   \* longest order summed by the total-distance reduction
MaxAddr == 3       \* most addresses in one /optimize-route request

(***************************************************************************)
(* Program constants.                                                      *)
(***************************************************************************)
Inf == 1000000                 \* float('inf') / np.inf: above every finite cost
None == -1                     \* Python None where an index is expected
right_turn_penalty == 500      \* default of the builder's third parameter
Unbound == 1000                \* the local `angle` before it is first assigned

(***************************************************************************)
(* Doubles: an integer value and, for zero, its sign.                      *)
(***************************************************************************)
F(i) == [val |-> i, negz |-> FALSE]
NegZero == [val |-> 0, negz |-> TRUE]

\* b - a in IEEE arithmetic: the difference of equal numbers is +0, and
\* (-0) - (+0) is -0.
FSub(b, a) ==
    [val  |-> b.val - a.val,
     negz |-> (b.val = 0 /\ a.val = 0 /\ b.negz /\ ~a.negz)]

\* math.degrees(math.atan2(y, x)) for a null vector or one of the eight
\* compass directions (no other vector occurs between the points used).
Atan2Deg(y, x) ==
    CASE y.val > 0 /\ x.val = y.val    -> 45
      [] y.val > 0 /\ x.val = 0        -> 90
      [] y.val > 0 /\ x.val = -(y.val) -> 135
      [] y.val < 0 /\ x.val = -(y.val) -> -45
      [] y.val < 0 /\ x.val = 0        -> -90
      [] y.val < 0 /\ x.val = y.val    -> -135
      [] y.val = 0 /\ ~y.negz /\ (x.val > 0 \/ (x.val = 0 /\ ~x.negz)) -> 0
      [] y.val = 0 /\ ~y.negz /\ (x.val < 0 \/ (x.val = 0 /\ x.negz))  -> 180
      [] y.val = 0 /\ y.negz /\ (x.val > 0 \/ (x.val = 0 /\ ~x.negz))  -> 0
      [] y.val = 0 /\ y.negz /\ (x.val < 0 \/ (x.val = 0 /\ x.negz))   -> -180

\* to_vec(a, b) = (b[0] - a[0], b[1] - a[1])
to_vec(a, b) == <<FSub(b[1], a[1]), FSub(b[2], a[2])>>

\* angle = degrees(angle2 - angle1) before normalisation
RawAngle(q1, q2, q3) ==
    LET v1 == to_vec(q2, q1)
        v2 == to_vec(q2, q3)
    IN  Atan2Deg(v2[2], v2[1]) - Atan2Deg(v1[2], v1[1])

\* the conditions of the two normalisation loops
UpCond_strict(a) == a < -180
UpCond(a) == a <= -180
DownCond(a) == a > 180

\* while angle <= -180: angle += 360
RECURSIVE NormalizeUp(_)
NormalizeUp(a) == IF UpCond(a) THEN NormalizeUp(a + 360) ELSE a

\* while angle > 180: angle -= 360
RECURSIVE NormalizeDown(_)
NormalizeDown(a) == IF DownCond(a) THEN NormalizeDown(a - 360) ELSE a

calculate_angle(q1, q2, q3) == NormalizeDown(NormalizeUp(RawAngle(q1, q2, q3)))

\* Points of the unit square, and the origin written with a negative zero.
Points == { <<F(0), F(0)>>, <<F(0), F(1)>>, <<F(1), F(0)>>, <<F(1), F(1)>> }
AnglePoints == Points \cup { <<F(0), NegZero>> }

(***************************************************************************)
(* Costs: metres as non-negative integers, or Inf for an element whose     *)
(* status is not OK.                                                       *)
(***************************************************************************)
Costs == {100, 300, Inf}

\* a + b on doubles that are non-negative or +inf
FAdd(a, b) == IF a >= Inf \/ b >= Inf THEN Inf ELSE a + b


(***************************************************************************)
(* State.                                                                  *)
(***************************************************************************)
VARIABLES
    mode,          \* which entry point runs: "direct", "angle", "sum", "handler",
                   \* "app", "client"
    pc,            \* position in the builder / the reduction / the handler
    n,             \* len(matrix)
    coords,        \* [0..n-1 -> point]: list of (lat, lng)
    matrix,        \* [0..n-1 -> [0..n-1 -> cost]]
    unvisited,     \* builder local: set of indices
    order,         \* builder local, then its result: sequence of indices
    current,       \* builder local
    prev,          \* builder local: an index or None
    min_cost,      \* builder local
    next_city,     \* builder local: an index or None
    scan,          \* what the iterator of `for city in unvisited` has left
    city,          \* builder local: the candidate of the last iteration
    cost,          \* builder local: its cost after the penalty
    angle,         \* builder local: the last turn angle computed
    steps,         \* history: selections completed by the current call
    calls,         \* history: calls of the builder started
    firstOrder,    \* history: what the first call returned
    ca_pc,         \* position in calculate_angle
    p1, p2, p3,    \* its parameters
    ca_angle,      \* its local `angle`
    ca_raw,        \* history: `angle` before the two while loops
    total,         \* the running sum of the total-distance reduction
    sum_i,         \* its position: the pair (order[sum_i], order[sum_i + 1])
    api_key,       \* handler: GOOGLE_API_KEY is set
    addresses,     \* handler: request.addresses
    geo_i,         \* handler: position of `for addr in request.addresses`
    valid_addresses,     \* handler local
    status,        \* handler: 0 while running, then the HTTP status
    total_distance,      \* handler local
    optimized_addresses, \* handler local
    matrixRequested,     \* history: get_distance_matrix was called
    builderCalled,       \* history: the handler called the builder
    coord_src,     \* history: for each entry of coords, the address geocoded
    route_data,    \* client session: TRUE when route_data holds a response
    route_request, \* history: the address list that response was asked for
    directions,    \* client session: "unset", "empty" or "steps"
    directions_request   \* history: the address list they were asked for

builderVars == <<pc, n, coords, matrix, unvisited, order, current, prev,
                 min_cost, next_city, scan, city, cost, angle, steps, calls,
                 firstOrder>>
angleVars == <<ca_pc, p1, p2, p3, ca_angle, ca_raw>>
sumVars == <<total, sum_i>>
handlerVars == <<api_key, addresses, geo_i, valid_addresses, status,
                 total_distance, optimized_addresses, matrixRequested,
                 builderCalled>>
builderLocals == <<unvisited, current, prev, min_cost, next_city, scan, city,
                   cost, angle, steps, calls, firstOrder>>
clientVars == <<route_data, route_request, directions, directions_request>>
vars == <<mode, builderVars, angleVars, sumVars, handlerVars, coord_src,
          clientVars>>

Index(k) == 0 .. (k - 1)

\* The n x n matrices with a zero diagonal and every other entry in C.
Matrices(k, C) ==
    LET Off == { ij \in Index(k) \X Index(k) : ij[1] # ij[2] }
    IN  { [i \in Index(k) |-> [j \in Index(k) |->
              IF i = j THEN 0 ELSE f[<<i, j>>]]] : f \in [Off -> C] }

AllFinite(m, k) == \A i, j \in Index(k) : m[i][j] < Inf

BuilderIdle ==
    /\ pc = "idle" /\ n = 0 /\ coords = <<>> /\ matrix = <<>>
    /\ unvisited = {} /\ order = <<>> /\ current = None /\ prev = None
    /\ min_cost = Unbound /\ next_city = None /\ scan = <<>> /\ city = None
    /\ cost = Unbound /\ angle = Unbound /\ steps = 0 /\ calls = 0
    /\ firstOrder = <<>>

AngleIdle ==
    /\ ca_pc = "idle" /\ p1 = <<F(0), F(0)>> /\ p2 = <<F(0), F(0)>>
    /\ p3 = <<F(0), F(0)>> /\ ca_angle = Unbound /\ ca_raw = Unbound

SumIdle == total = 0 /\ sum_i = 1

ClientIdle ==
    /\ route_data = FALSE /\ route_request = <<>>
    /\ directions = "unset" /\ directions_request = <<>>

HandlerIdle ==
    /\ coord_src = <<>> /\ ClientIdle
    /\ api_key = TRUE /\ addresses = <<>> /\ geo_i = 1
    /\ valid_addresses = <<>> /\ status = 0 /\ total_distance = 0
    /\ optimized_addresses = <<>> /\ matrixRequested = FALSE
    /\ builderCalled = FALSE

(***************************************************************************)
(* calculate_angle, statement by statement.                                *)
(***************************************************************************)
\* v1, v2, angle1, angle2, angle = math.degrees(angle2 - angle1)
AngleCompute ==
    /\ ca_pc = "entry"
    /\ ca_angle' = RawAngle(p1, p2, p3)
    /\ ca_raw' = RawAngle(p1, p2, p3)
    /\ ca_pc' = "up"
    /\ UNCHANGED <<p1, p2, p3>>

\* while angle <= -180: angle += 360
AngleUp ==
    /\ ca_pc = "up" /\ UpCond(ca_angle)
    /\ ca_angle' = ca_angle + 360
    /\ UNCHANGED <<ca_pc, p1, p2, p3, ca_raw>>

AngleUpDone ==
    /\ ca_pc = "up" /\ ~UpCond(ca_angle)
    /\ ca_pc' = "down"
    /\ UNCHANGED <<p1, p2, p3, ca_angle, ca_raw>>

\* while angle > 180: angle -= 360
AngleDown ==
    /\ ca_pc = "down" /\ DownCond(ca_angle)
    /\ ca_angle' = ca_angle - 360
    /\ UNCHANGED <<ca_pc, p1, p2, p3, ca_raw>>

\* return angle
AngleReturn ==
    /\ ca_pc = "down" /\ ~DownCond(ca_angle)
    /\ ca_pc' = "returned"
    /\ UNCHANGED <<p1, p2, p3, ca_angle, ca_raw>>

(***************************************************************************)
(* solve_tsp_nearest_neighbor_with_right_turn_penalty.                     *)
(***************************************************************************)
\* set(range(1, n))
InitialUnvisited_from0(k) == 0 .. (k - 1)
InitialUnvisited(k) == 1 .. (k - 1)

\* prev = None at entry; `p` is whatever an earlier call left behind
InitialPrev(p) == None

\* `for city in unvisited`: a CPython set of small non-negative ints is
\* iterated in increasing order (each int hashes to itself and the table is
\* always larger than the largest member of set(range(1, n))).
RECURSIVE ScanOrder(_)
ScanOrder(S) ==
    IF S = {} THEN <<>>
    ELSE LET m == CHOOSE x \in S : \A y \in S : x <= y
         IN  <<m>> \o ScanOrder(S \ {m})

\* -135 < angle < -45
IsRightTurn_inclusive(a) == -135 <= a /\ a <= -45
IsRightTurn(a) == -135 < a /\ a < -45

\* cost = matrix[current][city], plus the penalty on a right turn when
\* there is a previous stop
PenalizedCost(base, pr, a) ==
    IF pr # None /\ IsRightTurn(a) THEN FAdd(base, right_turn_penalty) ELSE base

\* if cost < min_cost
Improves_orEqual(c, best) == c <= best
Improves(c, best) == c < best

\* the matrix after `cost = matrix[current][city]; cost += right_turn_penalty`:
\* the sum is bound to the local name only
MatrixAfterCost_writeBack(m, cur, c, cst) == [m EXCEPT ![cur][c] = cst]
MatrixAfterCost(m, cur, c, cst) == m

BuilderEntry ==
    /\ pc = "call"
    /\ unvisited' = InitialUnvisited(n)
    /\ order' = <<0>>
    /\ current' = 0
    /\ prev' = InitialPrev(prev)
    /\ pc' = "while"
    /\ UNCHANGED <<n, coords, matrix, min_cost, next_city, scan, city, cost,
                   angle, steps, calls, firstOrder>>

\* while unvisited: min_cost = inf; next_city = None; start the for loop
WhileEnter ==
    /\ pc = "while" /\ unvisited # {}
    /\ min_cost' = Inf
    /\ next_city' = None
    /\ scan' = ScanOrder(unvisited)
    /\ pc' = "for"
    /\ UNCHANGED <<n, coords, matrix, unvisited, order, current, prev, city,
                   cost, angle, steps, calls, firstOrder>>

\* one iteration of the for loop
ForCity ==
    /\ pc = "for" /\ scan # <<>>
    /\ LET c    == Head(scan)
           base == matrix[current][c]
           a    == IF prev # None
                   THEN calculate_angle(coords[prev], coords[current], coords[c])
                   ELSE angle
           cst  == PenalizedCost(base, prev, a)
       IN  /\ city' = c
           /\ angle' = a
           /\ cost' = cst
           /\ matrix' = MatrixAfterCost(matrix, current, c, cst)
           /\ IF Improves(cst, min_cost)
              THEN min_cost' = cst /\ next_city' = c
              ELSE UNCHANGED <<min_cost, next_city>>
    /\ scan' = Tail(scan)
    /\ UNCHANGED <<pc, n, coords, unvisited, order, current, prev, steps,
                   calls, firstOrder>>

\* order.append(next_city); unvisited.remove(next_city) -- KeyError when
\* next_city is not a member --; prev = current; current = next_city
Select ==
    /\ pc = "for" /\ scan = <<>>
    /\ order' = Append(order, next_city)
    /\ IF next_city \in unvisited
       THEN /\ unvisited' = unvisited \ {next_city}
            /\ prev' = current
            /\ current' = next_city
            /\ steps' = steps + 1
            /\ pc' = "while"
       ELSE /\ pc' = "KeyError"
            /\ UNCHANGED <<unvisited, prev, current, steps>>
    /\ UNCHANGED <<n, coords, matrix, min_cost, next_city, scan, city, cost,
                   angle, calls, firstOrder>>

\* return order
Return ==
    /\ pc = "while" /\ unvisited = {}
    /\ pc' = "done"
    /\ firstOrder' = IF calls = 1 THEN order ELSE firstOrder
    /\ UNCHANGED <<n, coords, matrix, unvisited, order, current, prev,
                   min_cost, next_city, scan, city, cost, angle, steps, calls>>

\* the caller calls again with the same arguments: a new frame, whose
\* locals are unbound until assigned
Recall ==
    /\ mode = "direct"
    /\ pc \in {"summed", "KeyError"} /\ calls < MaxCalls
    /\ calls' = calls + 1
    /\ steps' = 0
    /\ pc' = "call"
    /\ min_cost' = Unbound /\ next_city' = None /\ scan' = <<>>
    /\ city' = None /\ cost' = Unbound /\ angle' = Unbound
    /\ UNCHANGED <<n, coords, matrix, unvisited, order, current, prev,
                   firstOrder>>


(***************************************************************************)
(* Total distance: sum(matrix[order[i]][order[i+1]]                        *)
(*                     for i in range(len(order)-1)).                      *)
(* `order` is a 1-based sequence here, so the code's i is sum_i - 1.       *)
(***************************************************************************)
\* matrix[order[i]][order[i+1]]
Edge_transposed(m, ord, i) == m[ord[i + 1]][ord[i]]
Edge(m, ord, i) == m[ord[i]][ord[i + 1]]

\* the caller of the builder starts the reduction on the order it got
SumStart ==
    /\ mode = "direct" /\ pc = "done"
    /\ total' = 0
    /\ sum_i' = 1
    /\ pc' = "sum"
    /\ UNCHANGED <<n, coords, matrix, order>>

\* one term of the generator added to the running sum
SumStep ==
    /\ pc = "sum" /\ sum_i <= Len(order) - 1
    /\ total' = FAdd(total, Edge(matrix, order, sum_i))
    /\ sum_i' = sum_i + 1
    /\ UNCHANGED <<pc, n, coords, matrix, order>>

\* the generator is exhausted
SumDone ==
    /\ pc = "sum" /\ ~(sum_i <= Len(order) - 1)
    /\ pc' = "summed"
    /\ UNCHANGED <<n, coords, matrix, order, total, sum_i>>

\* the whole reduction, as the handler runs it in one statement
RECURSIVE SumFrom(_, _, _)
SumFrom(m, ord, i) ==
    IF i <= Len(ord) - 1
    THEN FAdd(Edge(m, ord, i), SumFrom(m, ord, i + 1))
    ELSE 0

TotalDistance(m, ord) == SumFrom(m, ord, 1)


(***************************************************************************)
(* POST /optimize-route (optimize_route).  Python lists are functions on   *)
(* 0..len-1 where the builder indexes them, sequences elsewhere.           *)
(***************************************************************************)
ListLen(l) == Cardinality(DOMAIN l)
ListAppend(l, x) == [i \in 0 .. ListLen(l) |-> IF i < ListLen(l) THEN l[i] ELSE x]

\* what geocoding can resolve an address to, and what the distance matrix
\* can hold, in the handler's runs
GeoPoints == { <<F(0), F(0)>>, <<F(1), F(0)>> }
HandlerCosts == {100, Inf}

\* len(request.addresses) < 2 and len(coords) < 2
TooFewAddresses(a) == Len(a) < 2
TooFewCoords_lessThan1(c) == ListLen(c) < 1
TooFewCoords(c) == ListLen(c) < 2

\* api_key check, then len(request.addresses) < 2
HandlerEntry ==
    /\ pc = "h_entry"
    /\ IF ~api_key
       THEN status' = 500 /\ pc' = "h_raised"
       ELSE IF TooFewAddresses(addresses)
            THEN status' = 400 /\ pc' = "h_raised"
            ELSE status' = status /\ pc' = "h_geocode"
    /\ coords' = <<>>
    /\ valid_addresses' = <<>>
    /\ geo_i' = 1
    /\ UNCHANGED <<n, matrix, order, builderLocals, api_key, coord_src, addresses,
                   total_distance, optimized_addresses, matrixRequested,
                   builderCalled>>

\* one iteration of `for addr in request.addresses`: geocode_address gives
\* (None, None, None) or a location, and only a location is appended
GeocodeNext ==
    /\ pc = "h_geocode" /\ geo_i <= Len(addresses)
    /\ \/ UNCHANGED <<coords, valid_addresses, coord_src>>
       \/ \E pt \in GeoPoints :
            /\ coords' = ListAppend(coords, pt)
            /\ valid_addresses' = Append(valid_addresses, addresses[geo_i])
            /\ coord_src' = Append(coord_src, addresses[geo_i])
    /\ geo_i' = geo_i + 1
    /\ UNCHANGED <<pc, n, matrix, order, builderLocals, api_key, addresses,
                   status, total_distance, optimized_addresses,
                   matrixRequested, builderCalled>>

\* if len(coords) < 2: raise HTTPException(400)
GeocodeDone ==
    /\ pc = "h_geocode" /\ ~(geo_i <= Len(addresses))
    /\ IF TooFewCoords(coords)
       THEN status' = 400 /\ pc' = "h_raised"
       ELSE status' = status /\ pc' = "h_matrix"
    /\ UNCHANGED <<n, coords, matrix, order, builderLocals, api_key, coord_src,
                   addresses, geo_i, valid_addresses, total_distance,
                   optimized_addresses, matrixRequested, builderCalled>>

\* matrix = get_distance_matrix(coords, api_key); None raises 500
GetMatrix ==
    /\ pc = "h_matrix"
    /\ matrixRequested' = TRUE
    /\ \/ /\ status' = 500 /\ pc' = "h_raised"
          /\ UNCHANGED <<n, matrix>>
       \/ /\ matrix' \in Matrices(ListLen(coords), HandlerCosts)
          /\ n' = ListLen(coords)
          /\ pc' = "h_solve"
          /\ status' = status
    /\ UNCHANGED <<coords, order, builderLocals, api_key, coord_src, addresses, geo_i,
                   valid_addresses, total_distance, optimized_addresses,
                   builderCalled>>

\* order = solve_tsp_nearest_neighbor_with_right_turn_penalty(coords, matrix)
CallBuilder ==
    /\ pc = "h_solve"
    /\ builderCalled' = TRUE
    /\ calls' = calls + 1
    /\ pc' = "call"
    /\ UNCHANGED <<n, coords, matrix, order, unvisited, current, prev,
                   min_cost, next_city, scan, city, cost, angle, steps,
                   firstOrder, api_key, coord_src, addresses, geo_i, valid_addresses,
                   status, total_distance, optimized_addresses,
                   matrixRequested>>

\* total_distance, optimized_addresses and the RouteResponse
HandlerRespond ==
    /\ mode = "handler" /\ pc = "done"
    /\ total_distance' = TotalDistance(matrix, order)
    /\ optimized_addresses' =
           [k \in 1 .. Len(order) |-> valid_addresses[order[k] + 1]]
    /\ status' = 200
    /\ pc' = "h_responded"
    /\ UNCHANGED <<n, coords, matrix, order, builderLocals, api_key, coord_src,
                   addresses, geo_i, valid_addresses, matrixRequested,
                   builderCalled>>

\* the builder's KeyError is not caught: the framework answers 500
HandlerCrash ==
    /\ mode = "handler" /\ pc = "KeyError"
    /\ status' = 500
    /\ pc' = "h_raised"
    /\ UNCHANGED <<n, coords, matrix, order, builderLocals, api_key, coord_src,
                   addresses, geo_i, valid_addresses, total_distance,
                   optimized_addresses, matrixRequested, builderCalled>>

(***************************************************************************)
(* Specifications.                                                         *)
(***************************************************************************)
\* The builder called directly on every input up to MaxN waypoints.
Init ==
    /\ mode = "direct"
    /\ \E k \in 0 .. MaxN :
         /\ n = k
         /\ coords \in [Index(k) -> Points]
         /\ matrix \in Matrices(k, Costs)
    /\ pc = "call" /\ calls = 1 /\ steps = 0
    /\ unvisited = {} /\ order = <<>> /\ current = None /\ prev = None
    /\ min_cost = Unbound /\ next_city = None /\ scan = <<>> /\ city = None
    /\ cost = Unbound /\ angle = Unbound /\ firstOrder = <<>>
    /\ AngleIdle /\ SumIdle /\ HandlerIdle

notBuilder == <<mode, angleVars, sumVars, handlerVars, coord_src, clientVars>>
notSum == <<mode, builderLocals, angleVars, handlerVars, coord_src, clientVars>>

Next ==
    \/ BuilderEntry /\ UNCHANGED notBuilder
    \/ WhileEnter /\ UNCHANGED notBuilder
    \/ ForCity /\ UNCHANGED notBuilder
    \/ Select /\ UNCHANGED notBuilder
    \/ Return /\ UNCHANGED notBuilder
    \/ SumStart /\ UNCHANGED notSum
    \/ SumStep /\ UNCHANGED notSum
    \/ SumDone /\ UNCHANGED notSum
    \/ Recall /\ UNCHANGED notBuilder

Spec == Init /\ [][Next]_vars

\* calculate_angle on every triple of points.
InitAngle ==
    /\ mode = "angle"
    /\ BuilderIdle /\ SumIdle /\ HandlerIdle
    /\ ca_pc = "entry"
    /\ p1 \in AnglePoints /\ p2 \in AnglePoints /\ p3 \in AnglePoints
    /\ ca_angle = Unbound /\ ca_raw = Unbound

notAngle == <<mode, builderVars, sumVars, handlerVars, coord_src, clientVars>>

NextAngle ==
    \/ AngleCompute /\ UNCHANGED notAngle
    \/ AngleUp /\ UNCHANGED notAngle
    \/ AngleUpDone /\ UNCHANGED notAngle
    \/ AngleDown /\ UNCHANGED notAngle
    \/ AngleReturn /\ UNCHANGED notAngle

SpecAngle == InitAngle /\ [][NextAngle]_vars

\* The total-distance reduction on 3 x 3 matrices and every order over
\* their indices, of length 0 to MaxOrderLen.
ExampleMatrix ==
    [i \in Index(3) |-> [j \in Index(3) |->
        IF i = j THEN 0 ELSE IF i + j = 1 THEN 10 ELSE IF i + j = 2 THEN 20 ELSE 15]]

SumMatrices == Matrices(3, {10, Inf}) \cup {ExampleMatrix}

Orders == UNION { [1 .. l -> Index(3)] : l \in 0 .. MaxOrderLen }

InitSum ==
    /\ mode = "sum"
    /\ pc = "sum" /\ n = 3 /\ coords = <<>>
    /\ matrix \in SumMatrices
    /\ order \in Orders
    /\ unvisited = {} /\ current = None /\ prev = None
    /\ min_cost = Unbound /\ next_city = None /\ scan = <<>> /\ city = None
    /\ cost = Unbound /\ angle = Unbound /\ steps = 0 /\ calls = 0
    /\ firstOrder = <<>>
    /\ total = 0 /\ sum_i = 1
    /\ AngleIdle /\ HandlerIdle

NextSum ==
    \/ SumStep /\ UNCHANGED notSum
    \/ SumDone /\ UNCHANGED notSum

SpecSum == InitSum /\ [][NextSum]_vars

\* One /optimize-route request of 0 to MaxAddr addresses.
InitHandler ==
    /\ mode = "handler"
    /\ pc = "h_entry"
    /\ api_key \in BOOLEAN
    /\ \E k \in 0 .. MaxAddr : addresses = [i \in 1 .. k |-> i]
    /\ n = 0 /\ coords = <<>> /\ matrix = <<>>
    /\ unvisited = {} /\ order = <<>> /\ current = None /\ prev = None
    /\ min_cost = Unbound /\ next_city = None /\ scan = <<>> /\ city = None
    /\ cost = Unbound /\ angle = Unbound /\ steps = 0 /\ calls = 0
    /\ firstOrder = <<>>
    /\ geo_i = 1 /\ valid_addresses = <<>> /\ status = 0
    /\ total_distance = 0 /\ optimized_addresses = <<>>
    /\ matrixRequested = FALSE /\ builderCalled = FALSE
    /\ coord_src = <<>> /\ ClientIdle
    /\ AngleIdle /\ SumIdle

inHandler == <<mode, angleVars, sumVars, clientVars>>

NextHandler ==
    \/ HandlerEntry /\ UNCHANGED inHandler
    \/ GeocodeNext /\ UNCHANGED inHandler
    \/ GeocodeDone /\ UNCHANGED inHandler
    \/ GetMatrix /\ UNCHANGED inHandler
    \/ CallBuilder /\ UNCHANGED inHandler
    \/ BuilderEntry /\ UNCHANGED notBuilder
    \/ WhileEnter /\ UNCHANGED notBuilder
    \/ ForCity /\ UNCHANGED notBuilder
    \/ Select /\ UNCHANGED notBuilder
    \/ Return /\ UNCHANGED notBuilder
    \/ HandlerRespond /\ UNCHANGED inHandler
    \/ HandlerCrash /\ UNCHANGED inHandler

SpecHandler == InitHandler /\ [][NextHandler]_vars


(***************************************************************************)
(* The standalone Streamlit app (main of src/app.py).  Each interaction    *)
(* runs the script from the top with the session's address list; its       *)
(* builder is the one above.                                               *)
(***************************************************************************)
appFrame == <<mode, angleVars, sumVars, clientVars, api_key, valid_addresses,
              status, matrixRequested, builderCalled, firstOrder>>
appLocals == <<unvisited, current, prev, min_cost, next_city, scan, city,
               cost, angle, steps, calls>>

\* "Add Address" with a non-empty text: append to the session list, rerun
AppAddAddress ==
    /\ mode = "app" /\ pc = "a_rendered"
    /\ Len(addresses) < MaxAddr
    /\ addresses' = Append(addresses, Len(addresses) + 1)
    /\ pc' = "a_geocode"
    /\ geo_i' = 1
    /\ coords' = <<>> /\ coord_src' = <<>>
    /\ n' = 0 /\ matrix' = <<>> /\ order' = <<>>
    /\ unvisited' = {} /\ current' = None /\ prev' = None
    /\ min_cost' = Unbound /\ next_city' = None /\ scan' = <<>>
    /\ city' = None /\ cost' = Unbound /\ angle' = Unbound
    /\ steps' = 0 /\ calls' = 0
    /\ total_distance' = 0 /\ optimized_addresses' = <<>>
    /\ UNCHANGED appFrame

\* get_coords_for_addresses: one iteration of its loop; an address that does
\* not geocode is skipped
AppGeocodeNext ==
    /\ mode = "app" /\ pc = "a_geocode" /\ geo_i <= Len(addresses)
    /\ \/ UNCHANGED <<coords, coord_src>>
       \/ \E pt \in GeoPoints :
            /\ coords' = ListAppend(coords, pt)
            /\ coord_src' = Append(coord_src, addresses[geo_i])
    /\ geo_i' = geo_i + 1
    /\ UNCHANGED <<pc, n, matrix, order, appLocals, addresses,
                   total_distance, optimized_addresses>>
    /\ UNCHANGED appFrame

\* return coords; order = None; if coords and len(coords) > 1
AppGeocodeDone ==
    /\ mode = "app" /\ pc = "a_geocode" /\ ~(geo_i <= Len(addresses))
    /\ pc' = IF ListLen(coords) > 1 THEN "a_matrix" ELSE "a_rendered"
    /\ UNCHANGED <<n, coords, matrix, order, appLocals, addresses, geo_i,
                   coord_src, total_distance, optimized_addresses>>
    /\ UNCHANGED appFrame

\* matrix = get_distance_matrix(coords, key); None leaves order = None
AppGetMatrix ==
    /\ mode = "app" /\ pc = "a_matrix"
    /\ \/ pc' = "a_rendered" /\ UNCHANGED <<n, matrix>>
       \/ /\ matrix' \in Matrices(ListLen(coords), HandlerCosts)
          /\ n' = ListLen(coords)
          /\ pc' = "a_solve"
    /\ UNCHANGED <<coords, order, appLocals, addresses, geo_i, coord_src,
                   total_distance, optimized_addresses>>
    /\ UNCHANGED appFrame

\* order = solve_tsp_nearest_neighbor_with_right_turn_penalty(coords, matrix, 500)
AppCallBuilder ==
    /\ mode = "app" /\ pc = "a_solve"
    /\ calls' = calls + 1
    /\ pc' = "call"
    /\ UNCHANGED <<n, coords, matrix, order, unvisited, current, prev,
                   min_cost, next_city, scan, city, cost, angle, steps,
                   addresses, geo_i, coord_src, total_distance,
                   optimized_addresses>>
    /\ UNCHANGED appFrame

\* the label written at position k of the optimised order:
\* st.session_state['addresses'][idx] for idx in order
AppLabel(addrs, ord, k) == addrs[ord[k] + 1]

\* Route Details: the total distance and the labels of the optimised order
AppDisplay ==
    /\ mode = "app" /\ pc = "done"
    /\ total_distance' = TotalDistance(matrix, order)
    /\ optimized_addresses' =
           [k \in 1 .. Len(order) |-> AppLabel(addresses, order, k)]
    /\ pc' = "a_rendered"
    /\ UNCHANGED <<n, coords, matrix, order, appLocals, addresses, geo_i,
                   coord_src>>
    /\ UNCHANGED appFrame

\* the builder's KeyError ends the script run
AppCrash ==
    /\ mode = "app" /\ pc = "KeyError"
    /\ pc' = "a_rendered"
    /\ UNCHANGED <<n, coords, matrix, order, appLocals, addresses, geo_i,
                   coord_src, total_distance, optimized_addresses>>
    /\ UNCHANGED appFrame

\* The first run of the script, then one run per address added.
InitApp ==
    /\ mode = "app"
    /\ pc = "a_geocode"
    /\ n = 0 /\ coords = <<>> /\ matrix = <<>>
    /\ unvisited = {} /\ order = <<>> /\ current = None /\ prev = None
    /\ min_cost = Unbound /\ next_city = None /\ scan = <<>> /\ city = None
    /\ cost = Unbound /\ angle = Unbound /\ steps = 0 /\ calls = 0
    /\ firstOrder = <<>>
    /\ AngleIdle /\ SumIdle /\ HandlerIdle

NextApp ==
    \/ AppAddAddress
    \/ AppGeocodeNext
    \/ AppGeocodeDone
    \/ AppGetMatrix
    \/ AppCallBuilder
    \/ BuilderEntry /\ UNCHANGED notBuilder
    \/ WhileEnter /\ UNCHANGED notBuilder
    \/ ForCity /\ UNCHANGED notBuilder
    \/ Select /\ UNCHANGED notBuilder
    \/ Return /\ UNCHANGED notBuilder
    \/ AppDisplay
    \/ AppCrash

SpecApp == InitApp /\ [][NextApp]_vars

(***************************************************************************)
(* The Streamlit client of the API (main of src/app_update.py).  A click   *)
(* runs the script once; st.session_state holds addresses, route_data and  *)
(* directions between runs.                                                *)
(***************************************************************************)
\* the texts a user types
AddrNames == {1, 2}

clientFrame == <<mode, builderVars, angleVars, sumVars, api_key, geo_i,
                 valid_addresses, status, total_distance, optimized_addresses,
                 matrixRequested, builderCalled, coord_src>>

\* list.pop(i - 1) for the i-th row
Pop(l, i) == [k \in 1 .. (Len(l) - 1) |-> IF k < i THEN l[k] ELSE l[k + 1]]

\* "Add Address" with a non-blank text: append, route_data = None, rerun
ClientAdd ==
    /\ mode = "client" /\ Len(addresses) < MaxAddr
    /\ \E a \in AddrNames : addresses' = Append(addresses, a)
    /\ route_data' = FALSE /\ route_request' = <<>>
    /\ UNCHANGED <<directions, directions_request>>
    /\ UNCHANGED clientFrame

\* the delete button of row i: pop, route_data = None, rerun
ClientDelete_keepRoute ==
    /\ mode = "client"
    /\ \E i \in 1 .. Len(addresses) : addresses' = Pop(addresses, i)
    /\ UNCHANGED <<route_data, route_request, directions, directions_request>>
    /\ UNCHANGED clientFrame

ClientDelete ==
    /\ mode = "client"
    /\ \E i \in 1 .. Len(addresses) : addresses' = Pop(addresses, i)
    /\ route_data' = FALSE /\ route_request' = <<>>
    /\ UNCHANGED <<directions, directions_request>>
    /\ UNCHANGED clientFrame

\* "Clear All", shown when the list is not empty
ClientClear ==
    /\ mode = "client" /\ addresses # <<>>
    /\ addresses' = <<>>
    /\ route_data' = FALSE /\ route_request' = <<>>
    /\ UNCHANGED <<directions, directions_request>>
    /\ UNCHANGED clientFrame

\* "Optimize Route", shown for two or more addresses: POST /optimize-route
\* with the session's addresses; call_api gives the response or None
ClientOptimize ==
    /\ mode = "client" /\ Len(addresses) >= 2
    /\ \/ route_data' = TRUE /\ route_request' = addresses
       \/ UNCHANGED <<route_data, route_request>>
    /\ UNCHANGED <<addresses, directions, directions_request>>
    /\ UNCHANGED clientFrame

\* "Get Directions", shown while route_data is set: POST /get-directions
\* with the session's addresses; the list in the response may be empty
ClientGetDirections ==
    /\ mode = "client" /\ route_data
    /\ \/ /\ directions' \in {"empty", "steps"}
          /\ directions_request' = addresses
       \/ UNCHANGED <<directions, directions_request>>
    /\ UNCHANGED <<addresses, route_data, route_request>>
    /\ UNCHANGED clientFrame

\* if 'directions' in st.session_state and st.session_state['directions']
DirectionsShown == directions = "steps"

InitClient ==
    /\ mode = "client"
    /\ BuilderIdle /\ AngleIdle /\ SumIdle /\ HandlerIdle

NextClient ==
    \/ ClientAdd
    \/ ClientDelete
    \/ ClientClear
    \/ ClientOptimize
    \/ ClientGetDirections

SpecClient == InitClient /\ [][NextClient]_vars

(***************************************************************************)
(* Properties.                                                             *)
(***************************************************************************)
\* how often index i occurs in the sequence ord
Occurrences(ord, i) == Cardinality({ k \in 1 .. Len(ord) : ord[k] = i })

\* the cost the builder compares for candidate c at the current stop,
\* written from the statement of the rule
RuleCost(c) ==
    LET base == matrix[current][c]
        turn == calculate_angle(coords[prev], coords[current], coords[c])
    IN  IF prev # None /\ -135 < turn /\ turn < -45 /\ base < Inf
        THEN base + 500
        ELSE base

\* C1: for n >= 1 and a matrix whose off-diagonal costs are all finite, the
\* builder does not fail and returns a sequence of length n that starts
\* with 0 and holds each index 0..n-1 exactly once ([0] for n = 1).
C1_Permutation ==
    (n >= 1 /\ AllFinite(matrix, n)) =>
        /\ pc # "KeyError"
        /\ pc = "done" =>
             /\ Len(order) = n
             /\ order[1] = 0
             /\ \A i \in Index(n) : Occurrences(order, i) = 1
             /\ (n = 1 => order = <<0>>)

C1_Witness ==
    /\ mode = "direct" /\ pc = "done" /\ n = 3 /\ AllFinite(matrix, n)
    /\ order = <<0, 2, 1>>

\* C2: when every remaining candidate costs +infinity from the current stop,
\* the builder still selects one of them (the first scanned) and the call
\* returns a full permutation instead of failing.
C2_SelectsUnreachable ==
    /\ pc # "KeyError"
    /\ (/\ pc = "for" /\ scan = <<>>
        /\ \A c \in unvisited : matrix[current][c] = Inf)
           => next_city = Head(ScanOrder(unvisited))

\* C3: the total is the sum of matrix[order[i]][order[i+1]] over consecutive
\* pairs, row = the stop left, column = the stop reached; 0 for fewer than
\* two stops, +infinity when a consecutive pair is unreachable, and 25 for
\* the example matrix with order [0, 1, 2].
RECURSIVE PairSum(_, _, _)
PairSum(m, ord, S) ==
    IF S = {} THEN 0
    ELSE LET i == CHOOSE x \in S : TRUE
         IN  m[ord[i]][ord[i + 1]] + PairSum(m, ord, S \ {i})

C3_TotalCost ==
    (mode = "sum" /\ pc = "summed") =>
        LET Pairs == 1 .. (Len(order) - 1)
            unreachable == \E i \in Pairs : matrix[order[i]][order[i + 1]] = Inf
        IN  /\ unreachable => total = Inf
            /\ ~unreachable => total = PairSum(matrix, order, Pairs)
            /\ Len(order) < 2 => total = 0
            /\ (matrix = ExampleMatrix /\ order = <<0, 1, 2>>) => total = 25

C3_Witness ==
    /\ mode = "sum" /\ pc = "summed"
    /\ matrix = ExampleMatrix /\ order = <<0, 1, 2>> /\ total = 25

\* C4: in one iteration of the candidate loop the penalty is added to the
\* candidate's cost exactly when a previous stop exists and the angle
\* calculate_angle(coords[prev], coords[current], coords[city]) lies
\* strictly between -135 and -45; it is added once; prev = (0,1),
\* current = (0,0), city = (1,0) gives -90 and is penalised.
C4_PenaltyRule ==
    [][ (pc = "for" /\ scan # <<>>) =>
          LET c    == Head(scan)
              base == matrix[current][c]
          IN  /\ city' = c
              /\ prev = None => cost' = base
              /\ prev # None =>
                   /\ angle' = calculate_angle(coords[prev], coords[current],
                                               coords[c])
                   /\ (-135 < angle' /\ angle' < -45)
                          => cost' = FAdd(base, 500)
                   /\ ~(-135 < angle' /\ angle' < -45) => cost' = base
                   /\ (/\ coords[prev] = <<F(0), F(1)>>
                       /\ coords[current] = <<F(0), F(0)>>
                       /\ coords[c] = <<F(1), F(0)>>)
                          => (angle' = -90 /\ cost' = FAdd(base, 500))
      ]_vars

C4_Witness ==
    /\ mode = "direct" /\ pc = "for" /\ prev # None /\ city \in unvisited
    /\ coords[prev] = <<F(0), F(1)>>
    /\ coords[current] = <<F(0), F(0)>>
    /\ coords[city] = <<F(1), F(0)>>
    /\ angle = -90
    /\ matrix[current][city] = 100 /\ cost = 600

\* C5: calculate_angle returns a value in (-180, 180] for every triple of
\* points, coincident ones included; a raw difference of -180 becomes 180
\* and raw differences of -360 and 360 become 0.
C5_AngleRange ==
    ca_pc = "returned" =>
        /\ -180 < ca_angle /\ ca_angle <= 180
        /\ ca_raw = -180 => ca_angle = 180
        /\ ca_raw \in {-360, 360} => ca_angle = 0

C5_Witness ==
    /\ ca_pc = "returned" /\ ca_raw = -180 /\ ca_angle = 180 /\ p2 = p3

\* C6: for every n >= 1 the loop ends after exactly n-1 selection steps,
\* each of which removes one element from the unvisited set and appends one
\* element to the order.
C6_ExactlyNMinus1Steps ==
    (mode = "direct" /\ n >= 1) =>
        /\ pc # "KeyError"
        /\ pc \in {"while", "for", "done"} =>
             (Len(order) = steps + 1 /\ Cardinality(unvisited) = n - 1 - steps)
        /\ pc = "done" => (steps = n - 1 /\ unvisited = {})

\* C7: on an empty input (n = 0) the builder returns an empty order.
C7_EmptyInputEmptyOrder ==
    (mode = "direct" /\ n = 0 /\ pc = "done") => order = <<>>

\* C8 as stated: the handler never runs the builder on fewer than two
\* waypoints; a request with fewer than 2 addresses, or with fewer than 2
\* geocoded addresses, ends in 400 before any distance matrix is requested
\* and before the builder is called; a missing matrix ends in 500 before
\* the builder is called.
C8_RejectsBefore ==
    /\ builderCalled => (ListLen(coords) >= 2 /\ n = ListLen(coords))
    /\ (status # 0 /\ (Len(addresses) < 2 \/ ListLen(coords) < 2)) =>
           (status = 400 /\ ~matrixRequested /\ ~builderCalled)
    /\ (status # 0 /\ matrixRequested /\ n = 0) =>
           (status = 500 /\ ~builderCalled)

\* C8 amended: the same, for a request served with GOOGLE_API_KEY set; with
\* the key unset every request ends in 500 before any geocoding, matrix
\* request or builder call.
C8_RejectsBeforeWithKey ==
    /\ builderCalled =>
           (api_key /\ matrixRequested /\ ListLen(coords) >= 2
               /\ n = ListLen(coords))
    /\ (api_key /\ status # 0
           /\ (Len(addresses) < 2 \/ ListLen(coords) < 2)) =>
           (status = 400 /\ ~matrixRequested /\ ~builderCalled)
    /\ (~api_key /\ status # 0) =>
           (status = 500 /\ coords = <<>> /\ ~matrixRequested /\ ~builderCalled)
    /\ (status # 0 /\ matrixRequested /\ n = 0) =>
           (status = 500 /\ ~builderCalled)

C8_Witness ==
    /\ mode = "handler" /\ api_key /\ status = 400
    /\ Len(addresses) = 3 /\ ListLen(coords) = 1
    /\ ~matrixRequested /\ ~builderCalled

C10_InputsUntouched ==
    /\ [][coords' = coords /\ matrix' = matrix]_vars
    /\ []((mode = "direct" /\ pc = "while" /\ steps = 0) =>
             /\ order = <<0>> /\ current = 0 /\ prev = None
             /\ unvisited = 1 .. (n - 1))

C10_Witness ==
    /\ mode = "direct" /\ calls = 2 /\ pc = "for" /\ prev # None
    /\ city \in unvisited
    /\ cost = matrix[current][city] + 500

\* C11: when some addresses fail to geocode and are skipped, every position
\* k of the optimised order shown or returned carries the address whose
\* coordinate is coords[order[k]] (valid_addresses in the handler, the
\* session's address list in the standalone app).
C11_LabelsAligned ==
    \A k \in 1 .. Len(optimized_addresses) :
        optimized_addresses[k] = coord_src[order[k] + 1]

\* C12: in the client, a route_data that is set was computed from exactly
\* the current address list: every step that changes the list resets
\* route_data, and route_data is only set from a response to a request made
\* with the list held at that moment.
C12_RouteDataCurrent ==
    /\ [](route_data => route_request = addresses)
    /\ [][ /\ addresses' # addresses => ~route_data'
           /\ (route_data' /\ ~route_data) =>
                 (addresses' = addresses /\ route_request' = addresses)
       ]_vars

C12_Witness ==
    /\ mode = "client" /\ route_data /\ route_request = addresses
    /\ Len(addresses) = 2
    /\ directions = "steps" /\ Len(directions_request) = 3

\* C13: in the client, the directions on display were computed for the
\* current address list; directions of an earlier list are not shown once
\* the list has changed.
C13_DirectionsCurrent ==
    (mode = "client" /\ DirectionsShown) => directions_request = addresses

=============================================================================
